---------------------------- MODULE Spec2Model ----------------------------
(* A model of the interp.CubicSpline engine (src/interp/cubic_spline.go),   *)
(* the kahan.Summer64 accumulator it sums with, and realroots.Bisection     *)
(* (src/realroots/bisection.go).                                            *)
(*                                                                          *)
(* float64 values are modelled as exact rationals <<n, d>> in lowest terms  *)
(* with d > 0, plus one non-finite value NaN == <<0, 0>> standing for the   *)
(* IEEE-754 results +Inf, -Inf and NaN (what a division by zero yields and  *)
(* what every operation on such a value propagates).  Rounding is not       *)
(* modelled: the properties below are statements of exact arithmetic.       *)
(* Go slices are 0-based; sequences here are 1-based, and At(s, i) reads    *)
(* element i of the slice s, so indices keep the source's values.           *)
EXTENDS Integers, Sequences, FiniteSets, TLC

VARIABLES
    style,      \* CubicSpline.style
    x,          \* CubicSpline.x
    y,          \* CubicSpline.y
    slopes,     \* CubicSpline.slopes
    funcs,      \* CubicSpline.funcs
    last,       \* how the last call on the engine ended
    bFn,        \* Bisection's argument f
    bArg,       \* Bisection's argument i
    bSteps,     \* Bisection's argument steps
    bInterval,  \* bisector.interval
    bDone,      \* bisector.done
    bStartPos,  \* bisector.startPos
    bI,         \* the loop counter i of Bisection
    bPc,        \* Bisection's position
    bResult     \* the value Bisection returned

splineVars == <<style, x, y, slopes, funcs, last>>
bisectVars == <<bFn, bArg, bSteps, bInterval, bDone, bStartPos, bI, bPc, bResult>>
vars == <<style, x, y, slopes, funcs, last,
          bFn, bArg, bSteps, bInterval, bDone, bStartPos, bI, bPc, bResult>>

---------------------------------------------------------------------------
(* Bounds of the model. *)

\* Add calls on one engine, with pairwise distinct x (Spec)
MaxKnots == 5
\* Add calls on one engine, with any x (SpecDup)
MaxDupKnots == 4
\* knots of the engines whose integrals are compared
MaxIntegKnots == 3
\* the steps argument of Bisection
MaxSteps == 3

---------------------------------------------------------------------------
(* float64 as exact rationals with one non-finite value. *)

Abs(n) == IF n < 0 THEN -n ELSE n

RECURSIVE GCD(_, _)
GCD(a, b) == IF b = 0 THEN a ELSE GCD(b, a % b)

NaN == <<0, 0>>
IsNaN(a) == a[2] = 0

Norm(n, d) ==
    IF d = 0 THEN NaN
    ELSE IF n = 0 THEN <<0, 1>>
    ELSE LET g == GCD(Abs(n), Abs(d))
             s == IF d < 0 THEN -1 ELSE 1
         IN <<s * (n \div g), s * (d \div g)>>

R(n, d) == Norm(n, d)
Z(n) == <<n, 1>>
Zero == <<0, 1>>
One == <<1, 1>>

FAdd(a, b) ==
    IF IsNaN(a) \/ IsNaN(b) THEN NaN
    ELSE IF a[2] = b[2] THEN Norm(a[1] + b[1], a[2])
    ELSE LET g == GCD(a[2], b[2])
         IN Norm(a[1] * (b[2] \div g) + b[1] * (a[2] \div g), a[2] * (b[2] \div g))

FNeg(a) == IF IsNaN(a) THEN NaN ELSE <<-a[1], a[2]>>

FSub(a, b) == FAdd(a, FNeg(b))

FMul(a, b) ==
    IF IsNaN(a) \/ IsNaN(b) THEN NaN
    ELSE IF a[1] = 0 \/ b[1] = 0 THEN Zero
    ELSE LET g1 == GCD(Abs(a[1]), b[2])
             g2 == GCD(Abs(b[1]), a[2])
         IN <<(a[1] \div g1) * (b[1] \div g2), (a[2] \div g2) * (b[2] \div g1)>>

\* a / b; a division by zero yields a non-finite value
FDiv(a, b) ==
    IF IsNaN(a) \/ IsNaN(b) \/ b[1] = 0 THEN NaN
    ELSE FMul(a, IF b[1] < 0 THEN <<-b[2], -b[1]>> ELSE <<b[2], b[1]>>)

\* comparisons; every comparison with a non-finite value is modelled as false
FLt(a, b) == ~IsNaN(a) /\ ~IsNaN(b) /\ a[1] * b[2] < b[1] * a[2]
FLe(a, b) == ~IsNaN(a) /\ ~IsNaN(b) /\ a[1] * b[2] <= b[1] * a[2]
FGt(a, b) == FLt(b, a)
FGe(a, b) == FLe(b, a)
FEq(a, b) == ~IsNaN(a) /\ ~IsNaN(b) /\ a = b

At(s, i) == s[i + 1]
Put(s, i, v) == [s EXCEPT ![i + 1] = v]
Range(s) == {s[i] : i \in 1..Len(s)}

---------------------------------------------------------------------------
(* kahan.Summer64 *)

NewSummer64 == [sum |-> Zero, compensation |-> Zero]

SummerAdd(s, n) ==
    LET n1 == FSub(n, s.compensation)
        sum == FAdd(s.sum, n1)
    IN [sum |-> sum, compensation |-> FSub(FSub(sum, s.sum), n1)]

SummerSum(s) == s.sum

---------------------------------------------------------------------------
(* CubicFunc: <<a, b, c, d>> stands for a + bx + cx^2 + dx^3 *)

ZeroFunc == <<Zero, Zero, Zero, Zero>>

RECURSIVE CubicFuncEvalLoop(_, _, _, _, _)
CubicFuncEvalLoop(f, xv, k, sum, prod) ==
    IF k > 4 THEN SummerSum(sum)
    ELSE CubicFuncEvalLoop(f, xv, k + 1, SummerAdd(sum, FMul(f[k], prod)), FMul(prod, xv))

CubicFuncEval(f, xv) == CubicFuncEvalLoop(f, xv, 1, NewSummer64, One)

CubicFuncDeriv(f, xv) ==
    FAdd(FAdd(f[2], FMul(FMul(Z(2), f[3]), xv)),
         FMul(FMul(FMul(Z(3), f[4]), xv), xv))

indefIntegral(f, xv) ==
    LET x2 == FMul(xv, xv)
        x3 == FMul(x2, xv)
        x4 == FMul(x3, xv)
    IN FAdd(FAdd(FAdd(FMul(f[1], xv),
                      FMul(FMul(R(1, 2), f[2]), x2)),
                 FMul(FMul(R(1, 3), f[3]), x3)),
            FMul(FMul(R(1, 4), f[4]), x4))

CubicFuncInteg(f, x1, x2) == FSub(indefIntegral(f, x2), indefIntegral(f, x1))

---------------------------------------------------------------------------
(* sort.SearchFloat64s(a, xv): the binary search of sort.Search for the     *)
(* smallest index i in [0, len(a)] with a[i] >= xv.                         *)

\* a search that stops after the knots equal to xv instead of before them
RECURSIVE SearchLoopUpper(_, _, _, _)
SearchLoopUpper(a, xv, i, j) ==
    IF i < j
    THEN LET h == (i + j) \div 2
         IN IF ~FGt(At(a, h), xv)
            THEN SearchLoopUpper(a, xv, h + 1, j)
            ELSE SearchLoopUpper(a, xv, i, h)
    ELSE i

SearchFloat64sUpper(a, xv) == SearchLoopUpper(a, xv, 0, Len(a))

RECURSIVE SearchLoop(_, _, _, _)
SearchLoop(a, xv, i, j) ==
    IF i < j
    THEN LET h == (i + j) \div 2
         IN IF ~FGe(At(a, h), xv)
            THEN SearchLoop(a, xv, h + 1, j)
            ELSE SearchLoop(a, xv, i, h)
    ELSE i

SearchFloat64s(a, xv) == SearchLoop(a, xv, 0, Len(a))

---------------------------------------------------------------------------
(* The linear solver, ludecomp.Decompose(system) followed by lu.Solve(b):   *)
(* the solution v of system * v = b for a 4x4 system.  Each row of the      *)
(* augmented system is first cleared of denominators; the solution is then  *)
(* computed exactly by Cramer's rule on integers.  singular reports a       *)
(* system without a unique solution (determinant 0); a non-finite           *)
(* right-hand side yields non-finite coefficients.                          *)

NaNVector == <<NaN, NaN, NaN, NaN>>

LCM(a, b) == (a \div GCD(a, b)) * b

\* the row <<r1, r2, r3, r4 | rb>> times the least common denominator
IntRow(row, rb) ==
    LET l == LCM(LCM(LCM(row[1][2], row[2][2]), LCM(row[3][2], row[4][2])), rb[2])
    IN <<row[1][1] * (l \div row[1][2]), row[2][1] * (l \div row[2][2]),
         row[3][1] * (l \div row[3][2]), row[4][1] * (l \div row[4][2]),
         rb[1] * (l \div rb[2])>>

\* the 2x2 minor of rows p and q in columns j and k
Minor2(p, q, j, k) == p[j] * q[k] - p[k] * q[j]

\* the determinant of the 4x4 integer matrix whose rows are a, b, c, d
Det4(a, b, c, d) ==
    Minor2(a, b, 1, 2) * Minor2(c, d, 3, 4) - Minor2(a, b, 1, 3) * Minor2(c, d, 2, 4)
    + Minor2(a, b, 1, 4) * Minor2(c, d, 2, 3) + Minor2(a, b, 2, 3) * Minor2(c, d, 1, 4)
    - Minor2(a, b, 2, 4) * Minor2(c, d, 1, 3) + Minor2(a, b, 3, 4) * Minor2(c, d, 1, 2)

\* row with its column i replaced by its fifth entry, the right-hand side
WithRhs(row, i) ==
    <<IF i = 1 THEN row[5] ELSE row[1], IF i = 2 THEN row[5] ELSE row[2],
      IF i = 3 THEN row[5] ELSE row[3], IF i = 4 THEN row[5] ELSE row[4]>>

Cramer(a, b, c, d, det, i) ==
    Norm(Det4(WithRhs(a, i), WithRhs(b, i), WithRhs(c, i), WithRhs(d, i)), det)

Solve(system, b) ==
    LET nonFinite == \E i \in 1..4 : IsNaN(b[i])
        fin == IF nonFinite THEN <<Zero, Zero, Zero, Zero>> ELSE b
        r1 == IntRow(system[1], fin[1])
        r2 == IntRow(system[2], fin[2])
        r3 == IntRow(system[3], fin[3])
        r4 == IntRow(system[4], fin[4])
        det == Det4(r1, r2, r3, r4)
    IN IF det = 0 THEN [singular |-> TRUE, sol |-> NaNVector]
       ELSE IF nonFinite THEN [singular |-> FALSE, sol |-> NaNVector]
       ELSE [singular |-> FALSE,
             sol |-> <<Cramer(r1, r2, r3, r4, det, 1), Cramer(r1, r2, r3, r4, det, 2),
                       Cramer(r1, r2, r3, r4, det, 3), Cramer(r1, r2, r3, r4, det, 4)>>]

---------------------------------------------------------------------------
(* SplineStyle *)

StandardStyle == 0
MidArcStyle == 1
MonotoneStyle == 2

\* the style values a caller can pass: SplineStyle is an int, so a value
\* past MonotoneStyle can be passed as well
Styles == StandardStyle..(MonotoneStyle + 1)

---------------------------------------------------------------------------
(* CubicSpline.  An engine value c is a record of the struct's fields and   *)
(* panic, the message of the panic that has unwound the running call ("" if *)
(* none): every step of a call is skipped once a panic is under way.        *)

NoPanic == ""
MonotonePanic == "monotone cubic splines not yet implemented."
UnknownStylePanic == "unknown style"
SingularPanic == "singular system"

Ret(v) == [panic |-> NoPanic, val |-> v]
Panics(msg) == [panic |-> msg, val |-> NaN]

NewCubicSplineValue(s) ==
    [style |-> s, x |-> <<>>, y |-> <<>>, slopes |-> <<>>, funcs |-> <<>>,
     panic |-> NoPanic]

\* s = append(s, zero); copy(s[idx+1:], s[idx:])
AppendCopy(s, idx, zero) ==
    SubSeq(s, 1, idx) \o <<IF idx < Len(s) THEN At(s, idx) ELSE zero>>
        \o SubSeq(s, idx + 1, Len(s))

computeStandardSlope(c, idx) ==
    IF Len(c.x) < 2 THEN Ret(Zero)
    ELSE IF idx = 0
    THEN Ret(FDiv(FSub(At(c.y, 1), At(c.y, 0)), FSub(At(c.x, 1), At(c.x, 0))))
    ELSE LET lst == Len(c.x) - 1
         IN IF idx = lst
            THEN Ret(FDiv(FSub(At(c.y, lst), At(c.y, lst - 1)),
                          FSub(At(c.x, lst), At(c.x, lst - 1))))
            ELSE LET m1 == FDiv(FSub(At(c.y, idx), At(c.y, idx - 1)),
                                FSub(At(c.x, idx), At(c.x, idx - 1)))
                     m2 == FDiv(FSub(At(c.y, idx + 1), At(c.y, idx)),
                                FSub(At(c.x, idx + 1), At(c.x, idx)))
                 IN Ret(FDiv(FAdd(m1, m2), Z(2)))

computeMidArcSlope(c, idx) ==
    IF Len(c.x) < 2 THEN Ret(Zero)
    ELSE IF idx = 0
    THEN Ret(FDiv(FSub(At(c.y, 1), At(c.y, 0)), FSub(At(c.x, 1), At(c.x, 0))))
    ELSE LET lst == Len(c.x) - 1
         IN IF idx = lst
            THEN Ret(FDiv(FSub(At(c.y, lst), At(c.y, lst - 1)),
                          FSub(At(c.x, lst), At(c.x, lst - 1))))
            ELSE Ret(FDiv(FSub(At(c.y, idx + 1), At(c.y, idx - 1)),
                          FSub(At(c.x, idx + 1), At(c.x, idx - 1))))

\* a Monotone arm that falls back to the Standard formula
computeMonotoneSlopeAsStandard(c, idx) == computeStandardSlope(c, idx)

computeMonotoneSlope(c, idx) == Panics(MonotonePanic)

\* an updateSlope whose default arm falls back to the Standard formula
updateSlopeDefaultStandard(c, idx) ==
    IF c.panic # NoPanic THEN c
    ELSE LET r == CASE c.style = MidArcStyle -> computeMidArcSlope(c, idx)
                    [] c.style = MonotoneStyle -> computeMonotoneSlope(c, idx)
                    [] OTHER -> computeStandardSlope(c, idx)
         IN IF r.panic # NoPanic
            THEN [c EXCEPT !.panic = r.panic]
            ELSE [c EXCEPT !.slopes = Put(c.slopes, idx, r.val)]

updateSlope(c, idx) ==
    IF c.panic # NoPanic THEN c
    ELSE LET r == CASE c.style = StandardStyle -> computeStandardSlope(c, idx)
                    [] c.style = MidArcStyle -> computeMidArcSlope(c, idx)
                    [] c.style = MonotoneStyle -> computeMonotoneSlope(c, idx)
                    [] OTHER -> Panics(UnknownStylePanic)
         IN IF r.panic # NoPanic
            THEN [c EXCEPT !.panic = r.panic]
            ELSE [c EXCEPT !.slopes = Put(c.slopes, idx, r.val)]

\* solverPanics: whether the solver panics on a singular system (TRUE) or
\* returns non-finite coefficients (FALSE)
updateFunc(c, idx, solverPanics) ==
    IF c.panic # NoPanic THEN c
    ELSE LET x0 == At(c.x, idx)
             x1 == At(c.x, idx + 1)
             system ==
                 << <<One, x0, FMul(x0, x0), FMul(FMul(x0, x0), x0)>>,
                    <<One, x1, FMul(x1, x1), FMul(FMul(x1, x1), x1)>>,
                    <<Zero, One, FMul(Z(2), x0), FMul(FMul(Z(3), x0), x0)>>,
                    <<Zero, One, FMul(Z(2), x1), FMul(FMul(Z(3), x1), x1)>> >>
             solutions == <<At(c.y, idx), At(c.y, idx + 1),
                            At(c.slopes, idx), At(c.slopes, idx + 1)>>
             solution == Solve(system, solutions)
         IN IF solution.singular /\ solverPanics
            THEN [c EXCEPT !.panic = SingularPanic]
            ELSE [c EXCEPT !.funcs = Put(c.funcs, idx, solution.sol)]

\* an insertion after the knots equal to xv instead of before them
AddInsertAfterEqual(c, xv, yv) ==
    LET idx == SearchFloat64sUpper(c.x, xv)
        c1 == [c EXCEPT !.x = Put(AppendCopy(c.x, idx, Zero), idx, xv),
                        !.y = Put(AppendCopy(c.y, idx, Zero), idx, yv),
                        !.slopes = AppendCopy(c.slopes, idx, Zero)]
    IN IF Len(c1.x) > 1
       THEN LET f == Append(c1.funcs, ZeroFunc)
            IN [c1 EXCEPT !.funcs = IF idx # Len(f)
                                    THEN AppendCopy(c1.funcs, idx, ZeroFunc)
                                    ELSE f]
       ELSE c1

\* an insertion that appends the new segment without shifting the others
AddInsertNoFuncShift(c, xv, yv) ==
    LET idx == SearchFloat64s(c.x, xv)
        c1 == [c EXCEPT !.x = Put(AppendCopy(c.x, idx, Zero), idx, xv),
                        !.y = Put(AppendCopy(c.y, idx, Zero), idx, yv),
                        !.slopes = AppendCopy(c.slopes, idx, Zero)]
    IN IF Len(c1.x) > 1
       THEN [c1 EXCEPT !.funcs = Append(c1.funcs, ZeroFunc)]
       ELSE c1

\* lines 92-109 of Add: the new knot is put in place
AddInsert(c, xv, yv) ==
    LET idx == SearchFloat64s(c.x, xv)
        c1 == [c EXCEPT !.x = Put(AppendCopy(c.x, idx, Zero), idx, xv),
                        !.y = Put(AppendCopy(c.y, idx, Zero), idx, yv),
                        !.slopes = AppendCopy(c.slopes, idx, Zero)]
    IN IF Len(c1.x) > 1
       THEN LET f == Append(c1.funcs, ZeroFunc)
            IN [c1 EXCEPT !.funcs = IF idx # Len(f)
                                    THEN AppendCopy(c1.funcs, idx, ZeroFunc)
                                    ELSE f]
       ELSE c1

\* Add without c.updateFunc(idx), the refit of the segment right of the new knot
AddStepsNoRight(idx, n) ==
    << <<"updateSlope", idx>> >>
    \o (IF idx > 0
        THEN << <<"updateSlope", idx - 1>>, <<"updateFunc", idx - 1>> >>
             \o (IF idx > 1 THEN << <<"updateFunc", idx - 2>> >> ELSE <<>>)
        ELSE <<>>)
    \o (IF idx < n - 1
        THEN << <<"updateSlope", idx + 1>> >>
             \o (IF idx < n - 2 THEN << <<"updateFunc", idx + 1>> >> ELSE <<>>)
        ELSE <<>>)

\* Add without c.updateFunc(idx - 2), the refit of the second segment to the left
AddStepsNoFarLeft(idx, n) ==
    << <<"updateSlope", idx>> >>
    \o (IF idx > 0
        THEN << <<"updateSlope", idx - 1>>, <<"updateFunc", idx - 1>> >>
        ELSE <<>>)
    \o (IF idx < n - 1
        THEN << <<"updateSlope", idx + 1>>, <<"updateFunc", idx>> >>
             \o (IF idx < n - 2 THEN << <<"updateFunc", idx + 1>> >> ELSE <<>>)
        ELSE <<>>)

\* Add without c.updateFunc(idx + 1), the refit of the second segment to the right
AddStepsNoFarRight(idx, n) ==
    << <<"updateSlope", idx>> >>
    \o (IF idx > 0
        THEN << <<"updateSlope", idx - 1>>, <<"updateFunc", idx - 1>> >>
             \o (IF idx > 1 THEN << <<"updateFunc", idx - 2>> >> ELSE <<>>)
        ELSE <<>>)
    \o (IF idx < n - 1
        THEN << <<"updateSlope", idx + 1>>, <<"updateFunc", idx>> >>
        ELSE <<>>)

\* lines 111-125 of Add: the calls Add makes after inserting at idx into an
\* engine that then has n knots, in order; <<"updateSlope", i>> stands for
\* c.updateSlope(i) and <<"updateFunc", i>> for c.updateFunc(i)
AddSteps(idx, n) ==
    << <<"updateSlope", idx>> >>
    \o (IF idx > 0
        THEN << <<"updateSlope", idx - 1>>, <<"updateFunc", idx - 1>> >>
             \o (IF idx > 1 THEN << <<"updateFunc", idx - 2>> >> ELSE <<>>)
        ELSE <<>>)
    \o (IF idx < n - 1
        THEN << <<"updateSlope", idx + 1>>, <<"updateFunc", idx>> >>
             \o (IF idx < n - 2 THEN << <<"updateFunc", idx + 1>> >> ELSE <<>>)
        ELSE <<>>)

RunStep(c, step, solverPanics) ==
    IF step[1] = "updateSlope"
    THEN updateSlope(c, step[2])
    ELSE updateFunc(c, step[2], solverPanics)

\* the calls of steps from the k-th on, made one after the other on c
RECURSIVE RunSteps(_, _, _, _)
RunSteps(c, steps, k, solverPanics) ==
    IF k > Len(steps) THEN c
    ELSE RunSteps(RunStep(c, steps[k], solverPanics), steps, k + 1, solverPanics)

AddCall(c, xv, yv, solverPanics) ==
    LET idx == SearchFloat64s(c.x, xv)
        steps == AddSteps(idx, Len(c.x) + 1)
    IN RunSteps(AddInsert([c EXCEPT !.panic = NoPanic], xv, yv), steps, 1, solverPanics)

funcIndexForX(c, xv) ==
    LET idx == SearchFloat64s(c.x, xv) - 1
    IN IF idx < 0 THEN 0
       ELSE IF idx >= Len(c.funcs) THEN Len(c.funcs) - 1
       ELSE idx

Eval(c, xv) ==
    IF Len(c.y) = 1 THEN At(c.y, 0)
    ELSE IF Len(c.y) = 0 THEN Zero
    ELSE CubicFuncEval(At(c.funcs, funcIndexForX(c, xv)), xv)

Deriv(c, xv) ==
    IF Len(c.y) < 2 THEN Zero
    ELSE CubicFuncDeriv(At(c.funcs, funcIndexForX(c, xv)), xv)

\* a loop that integrates the last segment over its full span, not up to x2
RECURSIVE IntegLoopNoEndClip(_, _, _, _, _, _, _)
IntegLoopNoEndClip(c, x1, x2, startIdx, endIdx, i, sum) ==
    IF i > endIdx THEN SummerSum(sum)
    ELSE LET startX == IF i = startIdx THEN x1 ELSE At(c.x, i)
             endX == At(c.x, i + 1)
         IN IntegLoopNoEndClip(c, x1, x2, startIdx, endIdx, i + 1,
                      SummerAdd(sum, CubicFuncInteg(At(c.funcs, i), startX, endX)))

RECURSIVE IntegLoop(_, _, _, _, _, _, _)
IntegLoop(c, x1, x2, startIdx, endIdx, i, sum) ==
    IF i > endIdx THEN SummerSum(sum)
    ELSE LET startX == IF i = startIdx THEN x1 ELSE At(c.x, i)
             endX == IF i = endIdx THEN x2 ELSE At(c.x, i + 1)
         IN IntegLoop(c, x1, x2, startIdx, endIdx, i + 1,
                      SummerAdd(sum, CubicFuncInteg(At(c.funcs, i), startX, endX)))

IntegForward(c, x1, x2) ==
    IF Len(c.y) = 1 THEN FMul(At(c.y, 0), FSub(x2, x1))
    ELSE IF Len(c.y) = 0 THEN Zero
    ELSE LET startIdx == funcIndexForX(c, x1)
             endIdx == funcIndexForX(c, x2)
         IN IntegLoop(c, x1, x2, startIdx, endIdx, startIdx, NewSummer64)

Integ(c, x1, x2) ==
    IF FEq(x1, x2) THEN Zero
    ELSE IF FGt(x1, x2) THEN FNeg(IntegForward(c, x2, x1))
    ELSE IntegForward(c, x1, x2)

---------------------------------------------------------------------------
(* The engine as state. *)

XVals == {Z(0), Z(1), Z(2), Z(3), Z(5), Z(8)}
YVals == {Z(0), Z(1)}
XDupVals == {Z(0), Z(1), Z(3)}

Engine == [style |-> style, x |-> x, y |-> y, slopes |-> slopes, funcs |-> funcs,
           panic |-> IF last \in {"", "new", "ok"} THEN NoPanic ELSE last]

Distinct(s) == \A i, j \in 1..Len(s) : i # j => s[i] # s[j]

NewCubicSpline(s) ==
    /\ last = ""
    /\ LET c == NewCubicSplineValue(s)
       IN /\ style' = c.style
          /\ x' = c.x
          /\ y' = c.y
          /\ slopes' = c.slopes
          /\ funcs' = c.funcs
    /\ last' = "new"
    /\ UNCHANGED bisectVars

Add(xv, yv, solverPanics) ==
    /\ last # ""
    /\ LET c == AddCall(Engine, xv, yv, solverPanics)
       IN /\ x' = c.x
          /\ y' = c.y
          /\ slopes' = c.slopes
          /\ funcs' = c.funcs
          /\ last' = IF c.panic = NoPanic THEN "ok" ELSE c.panic
    /\ UNCHANGED <<style, bisectVars>>

\* Add with an x no knot has yet
AddDistinct ==
    \E xv \in XVals, yv \in YVals :
        /\ Len(x) < MaxKnots
        /\ xv \notin Range(x)
        /\ Add(xv, yv, TRUE)

\* Add with any x, an existing knot's included
AddAny ==
    \E xv \in XDupVals, yv \in YVals, solverPanics \in BOOLEAN :
        /\ Len(x) < MaxDupKnots
        /\ Add(xv, yv, solverPanics)

New == \E s \in Styles : NewCubicSpline(s)

BisectIdle ==
    /\ bFn = <<>>
    /\ bArg = <<>>
    /\ bSteps = 0
    /\ bInterval = <<>>
    /\ bDone = FALSE
    /\ bStartPos = FALSE
    /\ bI = 0
    /\ bPc = "idle"
    /\ bResult = Zero

---------------------------------------------------------------------------
(* realroots.Bisection.  The Func argument is drawn from the functions      *)
(* f(v) = a * (v - r), given as <<a, r>>; an Interval is <<Start, End>>.    *)

FuncEval(f, v) == FMul(f[1], FSub(v, f[2]))

Funcs == {<<a, r>> : a \in {Z(1), Z(-1)},
                     r \in {Z(-1), Z(0), R(1, 2), R(3, 4), Z(1), R(3, 2), Z(2), Z(3), Z(5)}}
Intervals == {<<Z(-2), Z(2)>>, <<Z(0), Z(2)>>, <<Z(0), Z(4)>>, <<Z(1), Z(2)>>,
              <<Z(1), Z(4)>>, <<Z(-2), Z(4)>>}

\* bisector.Root
Root(interval, done) ==
    IF done THEN interval[1]
    ELSE FDiv(FAdd(interval[1], interval[2]), Z(2))

\* bisector.Done
Done(done) == done

newBisector ==
    /\ bPc = "call"
    /\ LET startVal == FuncEval(bFn, bArg[1])
           endVal == FuncEval(bFn, bArg[2])
       IN IF FEq(startVal, Zero)
          THEN /\ bInterval' = <<bArg[1], bArg[1]>>
               /\ bDone' = TRUE
               /\ bStartPos' = FALSE
          ELSE IF FEq(endVal, Zero)
          THEN /\ bInterval' = <<bArg[2], bArg[2]>>
               /\ bDone' = TRUE
               /\ bStartPos' = FALSE
          ELSE /\ bInterval' = bArg
               /\ bDone' = FALSE
               /\ bStartPos' = FGt(FuncEval(bFn, bArg[1]), Zero)
    /\ bI' = 0
    /\ bPc' = "loop"
    /\ UNCHANGED <<bFn, bArg, bSteps, bResult, splineVars>>

\* one iteration of Bisection's loop: b.Step(); i++
Step ==
    /\ bPc = "loop"
    /\ bI < bSteps
    /\ ~Done(bDone)
    /\ LET xv == Root(bInterval, bDone)
           val == FuncEval(bFn, xv)
       IN IF FEq(val, Zero)
          THEN /\ bDone' = TRUE
               /\ bInterval' = <<val, val>>
          ELSE /\ bDone' = bDone
               /\ bInterval' = IF FGt(val, Zero) = bStartPos
                               THEN <<xv, bInterval[2]>>
                               ELSE <<bInterval[1], xv>>
    /\ bI' = bI + 1
    /\ UNCHANGED <<bFn, bArg, bSteps, bStartPos, bPc, bResult, splineVars>>

\* the loop of Bisection ends: return b.Root()
Return ==
    /\ bPc = "loop"
    /\ ~(bI < bSteps /\ ~Done(bDone))
    /\ bResult' = Root(bInterval, bDone)
    /\ bPc' = "returned"
    /\ UNCHANGED <<bFn, bArg, bSteps, bInterval, bDone, bStartPos, bI, splineVars>>

NoEngine ==
    /\ style = StandardStyle
    /\ x = <<>>
    /\ y = <<>>
    /\ slopes = <<>>
    /\ funcs = <<>>
    /\ last = ""

Init == NoEngine /\ BisectIdle

Next == New \/ AddDistinct

Spec == Init /\ [][Next]_vars

NextDup == New \/ AddAny

SpecDup == Init /\ [][NextDup]_vars


InitBisect ==
    /\ NoEngine
    /\ bFn \in Funcs
    /\ bArg \in Intervals
    /\ bSteps \in 0..MaxSteps
    /\ bInterval = <<>>
    /\ bDone = FALSE
    /\ bStartPos = FALSE
    /\ bI = 0
    /\ bPc = "call"
    /\ bResult = Zero

NextBisect == newBisector \/ Step \/ Return

SpecBisect == InitBisect /\ [][NextBisect]_vars

---------------------------------------------------------------------------
(* Properties. *)

EngineNext == [style |-> style', x |-> x', y |-> y', slopes |-> slopes',
               funcs |-> funcs', panic |-> NoPanic]

ValidStyles == {StandardStyle, MidArcStyle, MonotoneStyle}
Interpolating == style \in {StandardStyle, MidArcStyle}
Panicked == last \in {MonotonePanic, UnknownStylePanic, SingularPanic}

\* a Standard or MidArc engine whose Add calls, with pairwise distinct x,
\* have all completed
Built == Interpolating /\ last = "ok" /\ Distinct(x)

\* the slope the policy of c assigns to knot k of c's current knot sequence
PolicySlope(c, k) ==
    IF c.style = StandardStyle
    THEN computeStandardSlope(c, k).val
    ELSE computeMidArcSlope(c, k).val

\* segment i of c takes the values of its two knots at them, and has there
\* the derivatives sl0 and sl1
SegmentFits(c, i, sl0, sl1) ==
    LET p == At(c.funcs, i)
    IN /\ CubicFuncEval(p, At(c.x, i)) = At(c.y, i)
       /\ CubicFuncEval(p, At(c.x, i + 1)) = At(c.y, i + 1)
       /\ CubicFuncDeriv(p, At(c.x, i)) = sl0
       /\ CubicFuncDeriv(p, At(c.x, i + 1)) = sl1

InsertAt(s, i, v) == SubSeq(s, 1, i) \o <<v>> \o SubSeq(s, i + 1, Len(s))

\* C1: on a Standard or MidArc engine built by Add calls with pairwise
\* distinct x, Eval at every knot's x is that knot's y; funcIndexForX picks
\* for knot i the segment i-1 (segment 0 for the first knot), and that
\* segment's polynomial takes the value y_i at x_i.
C1_Interpolation ==
    Built =>
        \A i \in 0..(Len(x) - 1) :
            /\ Eval(Engine, At(x, i)) = At(y, i)
            /\ Len(x) >= 2 =>
                 LET seg == funcIndexForX(Engine, At(x, i))
                 IN /\ seg = (IF i = 0 THEN 0 ELSE i - 1)
                    /\ CubicFuncEval(At(funcs, seg), At(x, i)) = At(y, i)

C1_Witness ==
    /\ Built
    /\ Len(x) >= 4
    /\ At(y, 1) # At(y, 2)
    /\ funcIndexForX(Engine, At(x, 2)) = 1
    /\ Eval(Engine, At(x, 2)) = At(y, 2)

\* C2: after every completed Add on a Standard or MidArc engine (pairwise
\* distinct x) no segment is stale: every stored slope is the slope the
\* policy assigns to its knot in the current knot sequence, and every
\* segment's polynomial has its two knots' values and current slopes at its
\* ends, so that the two segments meeting at an interior knot both have
\* that knot's slope there.
C2_NoStaleSegment ==
    Built =>
        /\ Len(funcs) = Len(x) - 1
        /\ \A k \in 0..(Len(x) - 1) : At(slopes, k) = PolicySlope(Engine, k)
        /\ \A i \in 0..(Len(funcs) - 1) :
               SegmentFits(Engine, i, PolicySlope(Engine, i), PolicySlope(Engine, i + 1))

C2_Witness ==
    /\ Built
    /\ Len(x) >= 4
    /\ \E k \in 1..(Len(x) - 2) :
           /\ At(slopes, k) # Zero
           /\ At(slopes, k) # At(slopes, k - 1)
           /\ CubicFuncDeriv(At(funcs, k - 1), At(x, k)) = At(slopes, k)
           /\ CubicFuncDeriv(At(funcs, k), At(x, k)) = At(slopes, k)

\* the engine of style s after Add of the first k of the knots (xs, ys), in
\* the order of xs
RECURSIVE BuildInOrder(_, _, _, _)
BuildInOrder(s, xs, ys, k) ==
    IF k = 0 THEN NewCubicSplineValue(s)
    ELSE AddCall(BuildInOrder(s, xs, ys, k - 1), xs[k], ys[k], TRUE)

\* C3: whatever the order in which the knots (pairwise distinct x) of a
\* Standard or MidArc engine were added, its knot sequence, slopes and
\* segment polynomials are those of the engine to which the same knots are
\* added in ascending order of x.
C3_OrderIndependence ==
    Built =>
        LET b == BuildInOrder(style, x, y, Len(x))
        IN /\ b.x = x
           /\ b.y = y
           /\ b.slopes = slopes
           /\ b.funcs = funcs

C3_Witness ==
    /\ Built
    /\ Len(x) >= 4
    /\ \E i, j \in 1..Len(funcs) : funcs[i] # funcs[j] /\ funcs[i] # ZeroFunc
    /\ BuildInOrder(style, x, y, Len(x)).funcs = funcs

Shape ==
    /\ \A i \in 1..(Len(x) - 1) : FLe(x[i], x[i + 1])
    /\ Len(y) = Len(x)
    /\ Len(slopes) = Len(x)
    /\ Len(funcs) = (IF Len(x) >= 1 THEN Len(x) - 1 ELSE 0)

\* C4: every Add, an Add that repeats an existing x or that is aborted by a
\* panic included, leaves x in non-decreasing order with len(y) =
\* len(slopes) = len(x) and len(funcs) = max(len(x) - 1, 0), and puts the
\* new knot at an index with only smaller x before it and no smaller x
\* after it: immediately before the leftmost knot of equal x.
C4_Shape ==
    [][/\ Shape'
       /\ Len(x') # Len(x) =>
            \E idx \in 0..Len(x) :
                /\ x' = InsertAt(x, idx, At(x', idx))
                /\ y' = InsertAt(y, idx, At(y', idx))
                /\ \A k \in 0..(idx - 1) : FLt(At(x, k), At(x', idx))
                /\ \A k \in idx..(Len(x) - 1) : FLe(At(x', idx), At(x, k))]_vars

C4_Witness ==
    /\ Len(x) >= 3
    /\ Shape
    /\ \E i \in 1..(Len(x) - 1) : x[i] = x[i + 1] /\ y[i] # y[i + 1]

Queries == {Z(-1), Z(0), Z(1), R(3, 2), Z(3), Z(8), Z(9)}

C6_ExactRoot ==
    (bPc = "returned" /\ bDone) => FuncEval(bFn, bResult) = Zero

\* C7, as claimed: no engine exists whose style is outside Standard,
\* MidArc, Monotone: NewCubicSpline rejects such a style.
C7_RejectedAtConstruction ==
    last # "" => style \in ValidStyles

\* C7, amended: NewCubicSpline accepts a style outside Standard, MidArc,
\* Monotone, and queries on the empty engine it yields return 0; the style
\* is rejected by Add: every Add on such an engine panics with "unknown
\* style" in updateSlope.
C7_RejectedAtAdd ==
    (last # "" /\ style \notin ValidStyles) =>
        /\ last \in {"new", UnknownStylePanic}
        /\ last = "new" =>
             /\ x = <<>>
             /\ \A q \in Queries :
                    /\ Eval(Engine, q) = Zero
                    /\ Deriv(Engine, q) = Zero
                    /\ Integ(Engine, Z(0), q) = Zero
        /\ Len(x) > 0 => last = UnknownStylePanic

C7_Witness ==
    /\ style \notin ValidStyles
    /\ last = UnknownStylePanic
    /\ Len(x) >= 2

\* C8, as claimed: every Add on a Monotone engine ends in an error reported
\* to the caller, not in a panic and not in success, and the engine stores
\* no slope.
C8_UnsupportedError ==
    (style = MonotoneStyle /\ last \notin {"", "new"}) =>
        /\ ~Panicked
        /\ last # "ok"
        /\ slopes = <<>>

\* C8, amended: every Add on a Monotone engine, the first included, is
\* aborted by the panic "monotone cubic splines not yet implemented." of
\* computeMonotoneSlope (a panic, not an error value returned to the
\* caller), never falling back to the Standard formula; the slope entry of
\* each of its knots is the 0 that Add appended and no segment is ever fit.
C8_MonotonePanics ==
    (style = MonotoneStyle /\ last \notin {"", "new"}) =>
        /\ last = MonotonePanic
        /\ Len(slopes) = Len(x)
        /\ \A k \in 1..Len(slopes) : slopes[k] = Zero
        /\ \A i \in 1..Len(funcs) : funcs[i] = ZeroFunc

C8_Witness ==
    /\ style = MonotoneStyle
    /\ last = MonotonePanic
    /\ Len(x) >= 3
    /\ \E i \in 1..Len(y) : y[i] # Zero

\* C9: an Add that is aborted by a panic leaves the knot, slope and segment
\* sequences as they were before the call.
C9_AddAtomic ==
    [][(last' \in {MonotonePanic, UnknownStylePanic, SingularPanic}) =>
           (x' = x /\ y' = y /\ slopes' = slopes /\ funcs' = funcs)]_vars

\* the index at which the step has inserted its knot (pairwise distinct x)
InsertedIdx == CHOOSE i \in 0..Len(x) : x' = InsertAt(x, i, At(x', i))

\* C10: an Add that inserts at idx leaves every slope but those at idx-1,
\* idx, idx+1 and every segment but idx-2 .. idx+1 as it was, at the same
\* index left of idx and one index up otherwise; when it completes, the
\* slopes at idx-1, idx, idx+1 are the policy's for the new knot sequence
\* and the segments idx-2 .. idx+1 are fit to their knots' values and
\* slopes.
C10_Frame ==
    [][Len(x') # Len(x) =>
         LET idx == InsertedIdx
             touchedSlopes == {idx - 1, idx, idx + 1} \cap (0..(Len(slopes') - 1))
             touchedFuncs == (idx - 2)..(idx + 1) \cap (0..(Len(funcs') - 1))
         IN /\ \A k \in (0..(Len(slopes') - 1)) \ touchedSlopes :
                   At(slopes', k) = (IF k < idx THEN At(slopes, k) ELSE At(slopes, k - 1))
            /\ \A j \in (0..(Len(funcs') - 1)) \ touchedFuncs :
                   At(funcs', j) = (IF j < idx THEN At(funcs, j) ELSE At(funcs, j - 1))
            /\ last' = "ok" =>
                 /\ \A k \in touchedSlopes : At(slopes', k) = PolicySlope(EngineNext, k)
                 /\ \A j \in touchedFuncs :
                        SegmentFits(EngineNext, j, At(slopes', j), At(slopes', j + 1))]_vars

C10_Witness ==
    /\ Built
    /\ Len(x) >= 5
    /\ \E i, j \in 1..Len(slopes) : slopes[i] # slopes[j]
    /\ funcs[1] # funcs[Len(funcs)]

===========================================================================
